---- MODULE Spec2Model ----
(***************************************************************************)
(* Model of the spaced-repetition scheduler of the Japanese learning       *)
(* backend: UserProgress.update_sm2_parameters and is_due_for_review       *)
(* (backend-new/src/app/models/user_progress.py).                          *)
(*                                                                         *)
(* easiness_factor is a Python float (IEEE-754 binary64).  The model keeps *)
(* the float arithmetic of the code: a float is a sign and a magnitude,    *)
(* the magnitude an exact natural number of units of 2^-60 held as a       *)
(* little-endian sequence of 15-bit limbs, and every float operation is    *)
(* the exact operation followed by rounding to 53 significant bits         *)
(* (round-to-nearest, ties-to-even).                                       *)
(***************************************************************************)
EXTENDS Integers, Sequences, FiniteSets, TLC

\* ------------------------------------------------------------------------
\* Natural numbers of arbitrary size: little-endian limbs, no high zero limb
\* ------------------------------------------------------------------------

LimbBits == 15

LimbBase == 2^LimbBits

\* number of limbs below the binary point: a float's unit is 2^-(15*4) = 2^-60
FracLimbs == 4

Max2(a, b) == IF a >= b THEN a ELSE b

Min2(a, b) == IF a <= b THEN a ELSE b

Limb(a, i) == IF i >= 1 /\ i <= Len(a) THEN a[i] ELSE 0

RECURSIVE Norm(_)
Norm(a) == IF Len(a) > 0 /\ a[Len(a)] = 0 THEN Norm(SubSeq(a, 1, Len(a) - 1)) ELSE a

RECURSIVE BigOfInt(_)
BigOfInt(n) == IF n = 0 THEN << >> ELSE <<n % LimbBase>> \o BigOfInt(n \div LimbBase)

RECURSIVE IntOfBig(_)
IntOfBig(a) == IF Len(a) = 0 THEN 0 ELSE a[1] + LimbBase * IntOfBig(Tail(a))

RECURSIVE AddCarry(_, _, _, _)
AddCarry(a, b, i, c) ==
    IF i > Max2(Len(a), Len(b))
    THEN (IF c = 0 THEN << >> ELSE <<c>>)
    ELSE LET s == Limb(a, i) + Limb(b, i) + c
         IN  <<s % LimbBase>> \o AddCarry(a, b, i + 1, s \div LimbBase)

BigAdd(a, b) == AddCarry(a, b, 1, 0)

\* a - b for a >= b
RECURSIVE SubBorrow(_, _, _, _)
SubBorrow(a, b, i, c) ==
    IF i > Len(a)
    THEN << >>
    ELSE LET s == Limb(a, i) - Limb(b, i) - c
         IN  IF s < 0 THEN <<s + LimbBase>> \o SubBorrow(a, b, i + 1, 1)
                      ELSE <<s>> \o SubBorrow(a, b, i + 1, 0)

BigSub(a, b) == Norm(SubBorrow(a, b, 1, 0))

\* -1, 0, 1 as a < b, a = b, a > b (both normalised)
RECURSIVE CmpFrom(_, _, _)
CmpFrom(a, b, i) ==
    IF i = 0 THEN 0
    ELSE IF a[i] > b[i] THEN 1
    ELSE IF a[i] < b[i] THEN -1
    ELSE CmpFrom(a, b, i - 1)

BigCmp(a, b) ==
    IF Len(a) > Len(b) THEN 1
    ELSE IF Len(a) < Len(b) THEN -1
    ELSE CmpFrom(a, b, Len(a))

\* a * k for 0 <= k < 2^16
RECURSIVE MulCarry(_, _, _, _)
MulCarry(a, k, i, c) ==
    IF i > Len(a)
    THEN BigOfInt(c)
    ELSE LET s == a[i] * k + c
         IN  <<s % LimbBase>> \o MulCarry(a, k, i + 1, s \div LimbBase)

BigMulSmall(a, k) == Norm(MulCarry(a, k, 1, 0))

ShiftLimbsLeft(a, n) == IF Len(a) = 0 THEN a ELSE [i \in 1..n |-> 0] \o a

ShiftLimbsRight(a, n) == IF Len(a) <= n THEN << >> ELSE SubSeq(a, n + 1, Len(a))

RECURSIVE MulFrom(_, _, _)
MulFrom(a, b, j) ==
    IF j > Len(b) THEN << >>
    ELSE BigAdd(ShiftLimbsLeft(BigMulSmall(a, b[j]), j - 1), MulFrom(a, b, j + 1))

BigMul(a, b) == Norm(MulFrom(a, b, 1))

\* <<quotient, remainder>> of a by d, 0 < d < 2^16, long division from the top limb
RECURSIVE DivFrom(_, _, _, _)
DivFrom(a, d, i, r) ==
    IF i = 0 THEN << << >>, r >>
    ELSE LET cur == r * LimbBase + a[i]
             rest == DivFrom(a, d, i - 1, cur % d)
         IN  << rest[1] \o <<cur \div d>>, rest[2] >>

BigDivSmall(a, d) ==
    LET qr == DivFrom(a, d, Len(a), 0)
    IN  << Norm(qr[1]), qr[2] >>

\* floor(a / 2^s) and a * 2^s
ShiftRight(a, s) ==
    LET k == s \div LimbBits
        r == s % LimbBits
        b == ShiftLimbsRight(a, k)
    IN  IF r = 0 THEN b
        ELSE Norm([i \in 1..Len(b) |->
                     (b[i] \div 2^r) + (Limb(b, i + 1) % 2^r) * 2^(LimbBits - r)])

ShiftLeft(a, s) == ShiftLimbsLeft(BigMulSmall(a, 2^(s % LimbBits)), s \div LimbBits)

SmallBitLen(n) == CHOOSE k \in 0..LimbBits : n < 2^k /\ (k = 0 \/ n >= 2^(k - 1))

BitLen(a) == IF Len(a) = 0 THEN 0 ELSE LimbBits * (Len(a) - 1) + SmallBitLen(a[Len(a)])

IsOdd(a) == Len(a) > 0 /\ a[1] % 2 = 1

\* ------------------------------------------------------------------------
\* IEEE-754 binary64
\* ------------------------------------------------------------------------

\* bits of a binary64 significand
Precision == 53

\* a natural number rounded to Precision significant bits, ties to even
Round53(a) ==
    LET s == BitLen(a) - Precision
    IN  IF s <= 0 THEN a
        ELSE LET q == ShiftRight(a, s)
                 rem == BigSub(a, ShiftLeft(q, s))
                 c == BigCmp(rem, ShiftLeft(<<1>>, s - 1))
                 roundUp == c > 0 \/ (c = 0 /\ IsOdd(q))
             IN  ShiftLeft(IF roundUp THEN BigAdd(q, <<1>>) ELSE q, s)

FZero == [neg |-> FALSE, mag |-> << >>]

MkFloat(neg, mag) == IF Len(mag) = 0 THEN FZero ELSE [neg |-> neg, mag |-> mag]

\* float(n) of a Python int (exact below 2^53)
FOfInt(n) ==
    MkFloat(n < 0, Round53(ShiftLimbsLeft(BigOfInt(IF n < 0 THEN 0 - n ELSE n), FracLimbs)))

\* the float a decimal literal num/den denotes: the nearest binary64.
\* The quotient is taken with three more limbs and a sticky bit, then rounded.
FLit(num, den) ==
    LET qr == BigDivSmall(ShiftLimbsLeft(BigOfInt(num), FracLimbs + 3), den)
        sticky == IF qr[2] = 0 THEN << >> ELSE <<1>>
        wide == BigAdd(BigMulSmall(qr[1], 2), sticky)
    IN  MkFloat(FALSE, ShiftRight(Round53(wide), 3 * LimbBits + 1))

FNeg(x) == MkFloat(~x.neg, x.mag)

\* -1, 0, 1 as x < y, x = y, x > y
FCmp(x, y) ==
    IF x.neg /\ ~y.neg THEN -1
    ELSE IF ~x.neg /\ y.neg THEN 1
    ELSE IF x.neg THEN BigCmp(y.mag, x.mag)
    ELSE BigCmp(x.mag, y.mag)

FAdd(x, y) ==
    IF x.neg = y.neg THEN MkFloat(x.neg, Round53(BigAdd(x.mag, y.mag)))
    ELSE IF BigCmp(x.mag, y.mag) >= 0 THEN MkFloat(x.neg, Round53(BigSub(x.mag, y.mag)))
    ELSE MkFloat(y.neg, Round53(BigSub(y.mag, x.mag)))

FSub(x, y) == FAdd(x, FNeg(y))

\* n * x for a Python int n and a float x: float(n) * x, where float(n) is
\* exact (|n| < 2^53), so the exact product is |n| times the magnitude of x
FMulInt(n, x) ==
    MkFloat((n < 0) # x.neg,
            Round53(BigMul(x.mag, BigOfInt(IF n < 0 THEN 0 - n ELSE n))))

\* x * y for two floats of a product of at least 2^-7 or zero: the exact
\* product has its unit at 2^-120 and is rounded before the unit is restored
FMul(x, y) ==
    MkFloat(x.neg # y.neg, ShiftLimbsRight(Round53(BigMul(x.mag, y.mag)), FracLimbs))

\* min(x, y) of Python: y when y < x, else x
FMin(x, y) == IF FCmp(y, x) < 0 THEN y ELSE x

\* max(x, y) of Python: y when y > x, else x
FMax(x, y) == IF FCmp(y, x) > 0 THEN y ELSE x

\* int(x): truncation toward zero
FTrunc(x) ==
    LET n == IntOfBig(ShiftLimbsRight(x.mag, FracLimbs))
    IN  IF x.neg THEN 0 - n ELSE n

\* ------------------------------------------------------------------------
\* UserProgress (models/user_progress.py) and StudyResult (schemas)
\* ------------------------------------------------------------------------

\* StudyResult.quality_rating: ge=0, le=5
MinRating == 0

MaxRating == 5

QualityRatings == MinRating..MaxRating

\* how far outside 0..5 the ratings of an unvalidated caller go
RatingSlack == 1

AnyRatings == (MinRating - RatingSlack)..(MaxRating + RatingSlack)

\* number of update_sm2_parameters calls explored
MaxCalls == 3

\* the clock, in ticks, and its last value explored
TicksPerDay == 2

MaxTime == 2

\* last_studied / last_correct default: None
NoTime == -1

\* column defaults of a new record
DefaultEasiness == FLit(25, 10)

MinEasiness == FLit(13, 10)

NewProgress(t) ==
    [repetition_count |-> 0, easiness_factor |-> DefaultEasiness, interval_days |-> 1,
     next_review_date |-> t, correct_answers |-> 0, total_attempts |-> 0,
     current_streak |-> 0, best_streak |-> 0, study_status |-> "new",
     mastery_level |-> 0, last_studied |-> NoTime, last_correct |-> NoTime]

StudyStatuses == {"new", "learning", "review", "mastered"}

\* stored records that satisfy the field constraints of UserProgressBase
\* (repetition_count >= 0, 1.3 <= easiness_factor <= 3.0, interval_days >= 1,
\* streaks >= 0, 0 <= mastery_level <= 5), over a small grid of values
StoredProgress ==
    { [NewProgress(0) EXCEPT !.repetition_count = r, !.easiness_factor = e,
                             !.interval_days = i, !.current_streak = c,
                             !.best_streak = Max2(c, r), !.mastery_level = m,
                             !.study_status = st] :
        r \in {0, 2}, e \in {MinEasiness, DefaultEasiness}, i \in {1, 6},
        c \in {0, 4}, m \in {0, 3, 5}, st \in {"new", "review"} }

\* the float literals of line 69
Lit_0_1 == FLit(1, 10)

Lit_0_08 == FLit(8, 100)

Lit_0_02 == FLit(2, 100)

\* faulty variant: the two coefficients exchanged
EasinessDeltaSwapped(q) ==
    FSub(Lit_0_1, FMulInt(5 - q, FAdd(Lit_0_02, FMulInt(5 - q, Lit_0_08))))

\* 0.1 - (5 - q) * (0.08 + (5 - q) * 0.02), evaluated in floats as written
EasinessDeltaOf(q) ==
    FSub(Lit_0_1, FMulInt(5 - q, FAdd(Lit_0_08, FMulInt(5 - q, Lit_0_02))))

\* the same, tabulated once for the ratings explored (@@ makes the table explicit)
EasinessDeltaTable == [q \in AnyRatings |-> EasinessDeltaOf(q)] @@ << >>

EasinessDelta(q) == EasinessDeltaTable[q]

\* faulty variant: the floor forgotten
NewEasinessFactorNoFloor(ef, q) == FAdd(ef, EasinessDelta(q))

\* max(1.3, easiness_factor + (0.1 - ...))
NewEasinessFactor(ef, q) == FMax(MinEasiness, FAdd(ef, EasinessDelta(q)))

\* faulty variant: the product rounded to the nearest day instead of truncated
NewIntervalDaysRounded(rep, interval, ef) ==
    IF rep = 1 THEN 1
    ELSE IF rep = 2 THEN 6
    ELSE FTrunc(FAdd(FMulInt(interval, ef), FLit(1, 2)))

\* faulty variant: the interval multiplied by the growth (ef - 1) alone
NewIntervalDaysGrowthOnly(rep, interval, ef) ==
    IF rep = 1 THEN 1
    ELSE IF rep = 2 THEN 6
    ELSE FTrunc(FMulInt(interval, FSub(ef, FOfInt(1))))

\* faulty variant: the interval no longer grows after the second repetition
NewIntervalDaysKept(rep, interval, ef) ==
    IF rep = 1 THEN 1
    ELSE IF rep = 2 THEN 6
    ELSE interval

\* the interval of the successful branch; rep is the incremented count,
\* ef the updated easiness factor
NewIntervalDays(rep, interval, ef) ==
    IF rep = 1 THEN 1
    ELSE IF rep = 2 THEN 6
    ELSE FTrunc(FMulInt(interval, ef))

\* faulty variant: the failed branch forgets to reset the interval
FailedReviewKeepsInterval(self) ==
    [self EXCEPT !.repetition_count = 0, !.current_streak = 0]

\* faulty variant: the failed branch forgets to reset the repetition count
FailedReviewKeepsCount(self) ==
    [self EXCEPT !.interval_days = 1, !.current_streak = 0]

\* lines 59-62: the reset of a failed review
FailedReview(self) ==
    [self EXCEPT !.repetition_count = 0, !.interval_days = 1, !.current_streak = 0]

\* lines 58-77: the reset of a failed review, the SM-2 step of a successful one
Sm2Schedule(self, q) ==
    IF q < 3
    THEN FailedReview(self)
    ELSE LET rep == self.repetition_count + 1
             streak == self.current_streak + 1
             ef == NewEasinessFactor(self.easiness_factor, q)
         IN  [self EXCEPT !.repetition_count = rep,
                          !.current_streak = streak,
                          !.best_streak = Max2(self.best_streak, streak),
                          !.easiness_factor = ef,
                          !.interval_days = NewIntervalDays(rep, self.interval_days, ef)]

\* lines 79-82: t1 and t2 are the two readings of the clock
Sm2Timestamps(self, t1, t2) ==
    [self EXCEPT !.next_review_date = t1 + self.interval_days * TicksPerDay,
                 !.last_studied = t2]

\* faulty variant: the cap forgotten
NewMasteryLevelUncapped(m) == m + 1

\* min(5, mastery_level + 1)
NewMasteryLevel(m) == Min2(5, m + 1)

\* faulty variant: 'mastered' only at the top level
MasteredAtTop(m) == m >= 5

\* faulty variant: 'mastered' from the first level on
MasteredFromFirst(m) == m >= 1

\* mastery_level >= 4
IsMastered(m) == m >= 4

\* faulty variant: the status follows the rating whatever the repetition count
Sm2MasteryAnyCount(self, q) ==
    IF self.current_streak >= 5 /\ q >= 4
    THEN LET m == NewMasteryLevel(self.mastery_level)
         IN  [self EXCEPT !.mastery_level = m,
                          !.study_status = IF IsMastered(m) THEN "mastered" ELSE @]
    ELSE [self EXCEPT !.study_status = IF q >= 3 THEN "review" ELSE "learning"]

\* lines 84-90
Sm2Mastery(self, q) ==
    IF self.current_streak >= 5 /\ q >= 4
    THEN LET m == NewMasteryLevel(self.mastery_level)
         IN  [self EXCEPT !.mastery_level = m,
                          !.study_status = IF IsMastered(m) THEN "mastered" ELSE @]
    ELSE IF self.repetition_count > 0
    THEN [self EXCEPT !.study_status = IF q >= 3 THEN "review" ELSE "learning"]
    ELSE self

update_sm2_parameters(self, q, t1, t2) ==
    Sm2Mastery(Sm2Timestamps(Sm2Schedule(self, q), t1, t2), q)

\* faulty variant: due only after the review date
is_due_strictly_after(self, t) == t > self.next_review_date

\* datetime.now(UTC) >= self.next_review_date
is_due_for_review(self, t) == t >= self.next_review_date

\* ------------------------------------------------------------------------
\* Text: a str is the sequence of its code points
\* ------------------------------------------------------------------------

\* None passed where a str is expected
NoText == <<-1>>

KanjiFirst == 19968
KanjiLast == 40959
HiraganaFirst == 12352
HiraganaLast == 12447
KatakanaFirst == 12448
KatakanaLast == 12543
AsciiLimit == 128

\* the characters str.isspace() holds for, which str.strip() removes
WhitespaceChars ==
    {9, 10, 11, 12, 13, 28, 29, 30, 31, 32, 133, 160, 5760} \cup (8192..8202)
        \cup {8232, 8233, 8239, 8287, 12288}

\* str.strip()
Strip(text) ==
    LET kept == {i \in 1..Len(text) : text[i] \notin WhitespaceChars}
    IN  IF kept = {} THEN << >>
        ELSE SubSeq(text, CHOOSE i \in kept : \A j \in kept : i <= j,
                          CHOOSE i \in kept : \A j \in kept : i >= j)

\* str.endswith(ending)
EndsWith(text, ending) ==
    /\ Len(ending) <= Len(text)
    /\ SubSeq(text, Len(text) - Len(ending) + 1, Len(text)) = ending

\* faulty variant: the last hiragana code point falls in the katakana bucket
CharBucketShifted(char) ==
    IF KanjiFirst <= char /\ char <= KanjiLast THEN "kanji"
    ELSE IF HiraganaFirst <= char /\ char < HiraganaLast THEN "hiragana"
    ELSE IF HiraganaLast <= char /\ char <= KatakanaLast THEN "katakana"
    ELSE IF char < AsciiLimit THEN "ascii"
    ELSE "other"

\* the if/elif chain of analyze_text_composition
CharBucket(char) ==
    IF KanjiFirst <= char /\ char <= KanjiLast THEN "kanji"
    ELSE IF HiraganaFirst <= char /\ char <= HiraganaLast THEN "hiragana"
    ELSE IF KatakanaFirst <= char /\ char <= KatakanaLast THEN "katakana"
    ELSE IF char < AsciiLimit THEN "ascii"
    ELSE "other"

EmptyComposition == [kanji |-> 0, hiragana |-> 0, katakana |-> 0, ascii |-> 0, other |-> 0]

RECURSIVE CountFrom(_, _, _)
CountFrom(text, i, result) ==
    IF i > Len(text) THEN result
    ELSE CountFrom(text, i + 1, [result EXCEPT ![CharBucket(text[i])] = @ + 1])

analyze_text_composition(text) == CountFrom(text, 1, EmptyComposition)

\* sum(composition.values())
SumValues(composition) ==
    composition.kanji + composition.hiragana + composition.katakana
        + composition.ascii + composition.other

\* the character class [\u4e00-\u9fff] of the two patterns
MatchesKanjiPattern(char) == KanjiFirst <= char /\ char <= KanjiLast

\* re.findall(kanji_pattern, text): the matches in text order
RECURSIVE FindAllFrom(_, _)
FindAllFrom(text, i) ==
    IF i > Len(text) THEN << >>
    ELSE IF MatchesKanjiPattern(text[i]) THEN <<text[i]>> \o FindAllFrom(text, i + 1)
    ELSE FindAllFrom(text, i + 1)

\* bool(re.search(kanji_pattern, text))
has_kanji(text) == \E i \in 1..Len(text) : MatchesKanjiPattern(text[i])

\* the lists a set of characters can be turned into by list(): any order
ListsOf(chars) ==
    {l \in [1..Cardinality(chars) -> chars] : \A c \in chars : \E i \in DOMAIN l : l[i] = c}

\* faulty variant: the matches without set()
extract_kanji_all(text) == {FindAllFrom(text, 1)}

\* list(set(re.findall(kanji_pattern, text))): the lists it may return
extract_kanji(text) ==
    ListsOf({FindAllFrom(text, 1)[i] : i \in 1..Len(FindAllFrom(text, 1))})

\* the literals of the two threshold chains
Lit_0_2 == FLit(2, 10)
Lit_0_4 == FLit(4, 10)
Lit_0_6 == FLit(6, 10)

\* kanji_count / total_chars: the quotient of two ints, rounded to a float
TrueDiv(kanji_count, total_chars) == FLit(kanji_count, total_chars)

\* faulty variant: the thresholds are exclusive
RatioBandExclusive(kanji_ratio) ==
    IF FCmp(kanji_ratio, FZero) = 0 THEN 1
    ELSE IF FCmp(kanji_ratio, Lit_0_2) < 0 THEN 2
    ELSE IF FCmp(kanji_ratio, Lit_0_4) < 0 THEN 3
    ELSE IF FCmp(kanji_ratio, Lit_0_6) < 0 THEN 4
    ELSE 5

\* the if/elif chain on kanji_ratio, shared by estimate_jlpt_level (N5..N1)
\* and _estimate_difficulty (1..5)
RatioBand(kanji_ratio) ==
    IF FCmp(kanji_ratio, FZero) = 0 THEN 1
    ELSE IF FCmp(kanji_ratio, Lit_0_2) <= 0 THEN 2
    ELSE IF FCmp(kanji_ratio, Lit_0_4) <= 0 THEN 3
    ELSE IF FCmp(kanji_ratio, Lit_0_6) <= 0 THEN 4
    ELSE 5

JlptLevels == <<"N5", "N4", "N3", "N2", "N1">>

\* estimate_jlpt_level; "None" is Python's None. A None text makes
\* analyze_text_composition raise, which the method catches.
estimate_jlpt_level(has_generator, japanese_text) ==
    IF ~has_generator THEN "None"
    ELSE IF japanese_text = NoText THEN "None"
    ELSE LET composition == analyze_text_composition(japanese_text)
             kanji_count == composition.kanji
             total_chars == SumValues(composition)
         IN  IF total_chars = 0 THEN "None"
             ELSE JlptLevels[RatioBand(TrueDiv(kanji_count, total_chars))]

\* faulty variant: texts of exactly 50 characters count as long
LengthAdjustFromFifty(difficulty, text_length) ==
    IF text_length >= 50 THEN Min2(5, difficulty + 1)
    ELSE IF text_length < 10 THEN Max2(1, difficulty - 1)
    ELSE difficulty

\* the adjustment for text length
LengthAdjust(difficulty, text_length) ==
    IF text_length > 50 THEN Min2(5, difficulty + 1)
    ELSE IF text_length < 10 THEN Max2(1, difficulty - 1)
    ELSE difficulty

_estimate_difficulty(text, composition) ==
    LET total_chars == SumValues(composition)
    IN  IF total_chars = 0 THEN 1
        ELSE LengthAdjust(RatioBand(TrueDiv(composition.kanji, total_chars)), Len(text))

StatementEndings ==
    <<<<12391, 12377>>, <<12391, 12354, 12427>>, <<12384>>, <<12414, 12377>>,
      <<12427>>, <<12383>>, <<12356>>>>

CommandEndings == <<<<12367, 12384, 12373, 12356>>, <<12394, 12373, 12356>>, <<12390>>>>

QuestionMarks == {65311, 63}

ExclamationMarks == {65281, 33}

\* any(text.endswith(ending) for ending in endings)
EndsWithAny(text, endings) == \E i \in 1..Len(endings) : EndsWith(text, endings[i])

_detect_sentence_type(text) ==
    LET stripped == Strip(text)
    IN  IF \E m \in QuestionMarks : EndsWith(stripped, <<m>>) THEN "question"
        ELSE IF \E m \in ExclamationMarks : EndsWith(stripped, <<m>>) THEN "exclamation"
        ELSE IF EndsWithAny(stripped, StatementEndings) THEN "statement"
        ELSE IF EndsWithAny(stripped, CommandEndings) THEN "command"
        ELSE "other"

\* faulty variant: only None and the empty string count as blank
IsEmptyOnly(japanese_text) == japanese_text = NoText \/ japanese_text = << >>

\* not japanese_text or not japanese_text.strip()
IsBlank(japanese_text) ==
    \/ japanese_text = NoText
    \/ japanese_text = << >>
    \/ Strip(japanese_text) = << >>

\* what FuriganaGenerator.generate_furigana may return for a text that is not
\* blank: None (no converter, or the conversion failed) or a reading; the
\* reading itself is the work of pykakasi and is left abstract
FuriganaResults == {"None", "reading"}

\* process_japanese_sentence: the dict it returns, as a function of its keys.
\* furigana is what generate_furigana returned and kanji_chars what
\* extract_kanji returned.
process_japanese_sentence(has_generator, japanese_text, furigana, kanji_chars) ==
    IF IsBlank(japanese_text)
    THEN ("original_text" :> japanese_text) @@ ("error" :> "Empty or invalid text provided")
    ELSE IF has_generator
    THEN LET composition == analyze_text_composition(japanese_text)
         IN  ("original_text" :> Strip(japanese_text))
                 @@ ("furigana" :> furigana)
                 @@ (IF furigana # "None" THEN "romanization" :> "romanized" ELSE << >>)
                 @@ ("character_composition" :> composition)
                 @@ ("has_kanji" :> (composition.kanji > 0))
                 @@ ("kanji_count" :> composition.kanji)
                 @@ (IF composition.kanji > 0 THEN "kanji_characters" :> kanji_chars
                     ELSE << >>)
                 @@ ("difficulty_estimate" :> _estimate_difficulty(japanese_text, composition))
                 @@ ("sentence_type" :> _detect_sentence_type(japanese_text))
    ELSE ("original_text" :> Strip(japanese_text))
             @@ ("error" :> "Japanese processing components not available")
             @@ ("furigana" :> "None")
             @@ ("romanization" :> "None")

\* result.get(key, default)
Get(result, key, default) == IF key \in DOMAIN result THEN result[key] ELSE default

\* JapaneseTextProcessingRequest.japanese_text: min_length=1, max_length=1000
RequestMinLength == 1

RequestMaxLength == 1000

RequestValidates(japanese_text) ==
    /\ japanese_text # NoText
    /\ RequestMinLength <= Len(japanese_text) /\ Len(japanese_text) <= RequestMaxLength

\* the endpoint process_japanese_text: the response it builds from the result
\* of process_japanese_sentence and from estimate_jlpt_level, called on the
\* text of the request as it came
process_japanese_text(has_generator, japanese_text, furigana, kanji_chars) ==
    LET result == process_japanese_sentence(has_generator, japanese_text, furigana, kanji_chars)
    IN  [original_text |-> Get(result, "original_text", japanese_text),
         furigana |-> Get(result, "furigana", "None"),
         romanization |-> Get(result, "romanization", "None"),
         has_kanji |-> Get(result, "has_kanji", FALSE),
         kanji_count |-> Get(result, "kanji_count", 0),
         kanji_characters |-> Get(result, "kanji_characters", << >>),
         difficulty_estimate |-> Get(result, "difficulty_estimate", "None"),
         estimated_jlpt_level |-> estimate_jlpt_level(has_generator, japanese_text),
         sentence_type |-> Get(result, "sentence_type", "None"),
         character_composition |-> Get(result, "character_composition", "None"),
         error |-> Get(result, "error", "None")]

\* ------------------------------------------------------------------------
\* Texts explored
\* ------------------------------------------------------------------------

\* longest text built freely from the alphabet
MaxFree == 2

\* longest text built from a block of kanji and a block of hiragana
MaxBlock == 52

Repeat(char, n) == [i \in 1..n |-> char]

\* the first and last code point of each range, and their neighbours outside
BoundaryChars ==
    {KanjiFirst - 1, KanjiFirst, KanjiLast, KanjiLast + 1,
     HiraganaFirst - 1, HiraganaFirst, HiraganaLast,
     KatakanaFirst, KatakanaLast, KatakanaLast + 1,
     AsciiLimit - 1, AsciiLimit}

AllEndings ==
    {StatementEndings[i] : i \in 1..Len(StatementEndings)}
        \cup {CommandEndings[i] : i \in 1..Len(CommandEndings)}

EndingChars == UNION {{e[i] : i \in 1..Len(e)} : e \in AllEndings}

\* space, line feed, ideographic space
SpaceChars == {32, 10, 12288}

Alphabet ==
    BoundaryChars \cup EndingChars \cup QuestionMarks \cup ExclamationMarks \cup SpaceChars

FreeTexts == UNION {[1..n -> Alphabet] : n \in 0..MaxFree}

BlockTexts ==
    UNION {{Repeat(KanjiFirst, k) \o Repeat(HiraganaFirst, n - k) : k \in 0..n} :
               n \in 0..MaxBlock}

\* a sentence ending after a stem, followed by a mark or by white space
EndingTexts ==
    {stem \o e \o trail :
        stem \in {<< >>, <<KanjiFirst>>, <<32>>},
        e \in AllEndings,
        trail \in {<< >>} \cup {<<c>> : c \in QuestionMarks \cup ExclamationMarks \cup SpaceChars}}

TextInputs == {NoText} \cup FreeTexts \cup BlockTexts \cup EndingTexts

\* ------------------------------------------------------------------------
\* DataImporter (services/data_importer.py), on a synchronous Session.
\* A japanese_text is a number; the table japanese_sentence is the sequence
\* of the japanese_text of its rows (the column has no unique constraint).
\* ------------------------------------------------------------------------

\* number of distinct valid texts, and of rows in a file
MaxTexts == 2

MaxRows == 3

\* texts that JapaneseSentenceCreateInternal accepts
Texts == 1..MaxTexts

\* a text longer than max_length=1000
TooLongText == 0

\* '' as japanese_text
EmptyText == -1

\* a row or item with an empty japanese or english field
BlankRow == -2

\* a row or item whose field is None (a short CSV row, a JSON null)
BadRow == -3

RowValues == Texts \cup {TooLongText, BlankRow, BadRow}

NewStats(t) ==
    [total_processed |-> 0, successfully_imported |-> 0, duplicates_skipped |-> 0,
     errors |-> 0, start_time |-> t, end_time |-> NoTime, error_details |-> << >>]

\* ImportStats.finish
finish(stats, t) == [stats EXCEPT !.end_time = t]

\* faulty variant: the failure is recorded but the statistics are not finished
ImportFailedUnfinished(stats, msg, t) ==
    [stats EXCEPT !.error_details = Append(@, "Import failed: " \o msg), !.errors = @ + 1]

\* except Exception of import_from_csv / import_from_json
ImportFailed(stats, msg, t) ==
    finish([stats EXCEPT !.error_details = Append(@, "Import failed: " \o msg),
                         !.errors = @ + 1], t)

\* the rows of a CSV file: [pairs, errors]; a row whose field is None makes
\* strip() raise inside the per-row try
RECURSIVE CsvRowsFrom(_, _, _)
CsvRowsFrom(rows, i, acc) ==
    IF i > Len(rows) THEN acc
    ELSE IF rows[i] = BadRow THEN CsvRowsFrom(rows, i + 1, [acc EXCEPT !.errors = @ + 1])
    ELSE IF rows[i] = BlankRow THEN CsvRowsFrom(rows, i + 1, acc)
    ELSE CsvRowsFrom(rows, i + 1, [acc EXCEPT !.pairs = Append(@, rows[i])])

\* the items of a JSON list: [pairs, raised]; a None field makes strip()
\* raise with no try around it
RECURSIVE JsonItemsFrom(_, _, _)
JsonItemsFrom(rows, i, acc) ==
    IF i > Len(rows) THEN acc
    ELSE IF rows[i] = BadRow THEN [acc EXCEPT !.raised = TRUE]
    ELSE IF rows[i] = BlankRow THEN JsonItemsFrom(rows, i + 1, acc)
    ELSE JsonItemsFrom(rows, i + 1, [acc EXCEPT !.pairs = Append(@, rows[i])])

\* a JSON object with both keys is one pair, taken as it is
JsonObject(row) ==
    IF row = BadRow THEN [pairs |-> << >>, raised |-> FALSE]
    ELSE IF row = BlankRow THEN [pairs |-> <<EmptyText>>, raised |-> FALSE]
    ELSE [pairs |-> <<row>>, raised |-> FALSE]

\* faulty variant: a failed pair ends the loop
NextPairStopOnFailure(run, stats, t) ==
    IF stats.errors > run.stats.errors \/ run.idx >= Len(run.pairs)
    THEN [run EXCEPT !.stats = finish(stats, t), !.pc = "done", !.idx = @ + 1]
    ELSE [run EXCEPT !.stats = stats, !.pc = "check", !.idx = @ + 1]

\* the end of the loop body, reached from every branch: the loop goes on to
\* the next pair, and after the last pair the caller finishes the statistics
NextPair(run, stats, t) ==
    IF run.idx >= Len(run.pairs)
    THEN [run EXCEPT !.stats = finish(stats, t), !.pc = "done", !.idx = @ + 1]
    ELSE [run EXCEPT !.stats = stats, !.pc = "check", !.idx = @ + 1]

\* _import_sentence_pairs is entered with the pairs read
StartPairs(run, pairs, stats, t) ==
    IF pairs = << >>
    THEN [run EXCEPT !.pairs = pairs, !.stats = finish(stats, t), !.pc = "done"]
    ELSE [run EXCEPT !.pairs = pairs, !.stats = stats, !.pc = "check", !.idx = 1]

\* import_from_csv up to the loop over the pairs
import_from_csv(run, t) ==
    IF run.file = "missing" THEN [run EXCEPT !.stats = ImportFailed(@, "CSV file not found", t),
                                             !.pc = "done"]
    ELSE IF run.file = "unreadable"
    THEN [run EXCEPT !.stats = ImportFailed(@, "cannot read", t), !.pc = "done"]
    ELSE LET read == CsvRowsFrom(run.rows, 1, [pairs |-> << >>, errors |-> 0])
         IN  StartPairs(run, read.pairs, [run.stats EXCEPT !.errors = @ + read.errors], t)

\* import_from_json up to the loop over the pairs
import_from_json(run, t) ==
    IF run.file = "missing" THEN [run EXCEPT !.stats = ImportFailed(@, "JSON file not found", t),
                                             !.pc = "done"]
    ELSE IF run.file = "unreadable"
    THEN [run EXCEPT !.stats = ImportFailed(@, "cannot read", t), !.pc = "done"]
    ELSE LET read == IF run.shape = "list"
                     THEN JsonItemsFrom(run.rows, 1, [pairs |-> << >>, raised |-> FALSE])
                     ELSE JsonObject(run.rows[1])
         IN  IF read.raised
             THEN [run EXCEPT !.stats = ImportFailed(@, "AttributeError", t), !.pc = "done"]
             ELSE StartPairs(run, read.pairs, run.stats, t)

\* the query of the duplicate check finds a row with this japanese_text
Existing(stored, japanese_text) == \E i \in 1..Len(stored) : stored[i] = japanese_text

\* JapaneseSentenceCreateInternal(**sentence_data) accepts the text
Validates(japanese_text) == japanese_text \in Texts

\* how db.commit() may end
CommitResults == {"ok", "IntegrityError", "OperationalError"}

\* the auto-processing block: awaiting the str (or None) that the synchronous
\* generate_furigana returns raises TypeError, which the inner except logs;
\* sentence_data is left as it was
AutoProcessWarnings(run) == IF run.auto_process THEN run.warnings + 1 ELSE run.warnings

\* except Exception of the loop: the message is kept, the error counted
RecordFailed(stats, msg) ==
    [stats EXCEPT !.error_details = Append(@, "Failed to import: " \o msg), !.errors = @ + 1]

\* faulty variant: the answer of the duplicate check is ignored
check_existing_ignored(run, stored, t) ==
    [run EXCEPT !.stats.total_processed = @ + 1, !.pc = "insert"]

\* faulty variant: the duplicate is counted, but the loop body goes on to the
\* insert (the continue forgotten)
check_existing_no_continue(run, stored, t) ==
    LET counted == [run.stats EXCEPT !.total_processed = @ + 1]
    IN  IF Existing(stored, run.pairs[run.idx])
        THEN [run EXCEPT !.stats = [counted EXCEPT !.duplicates_skipped = @ + 1],
                         !.pc = "insert"]
        ELSE [run EXCEPT !.stats = counted, !.pc = "insert"]

\* the loop body up to the duplicate check
check_existing(run, stored, t) ==
    LET counted == [run.stats EXCEPT !.total_processed = @ + 1]
    IN  IF Existing(stored, run.pairs[run.idx])
        THEN NextPair(run, [counted EXCEPT !.duplicates_skipped = @ + 1], t)
        ELSE [run EXCEPT !.stats = counted, !.pc = "insert"]

\* the loop body from the auto-processing to the commit; the run keeps how
\* the commit ended
insert_commit(run, committed, t) ==
    LET logged == [run EXCEPT !.warnings = AutoProcessWarnings(run),
                              !.committed = IF Validates(run.pairs[run.idx]) THEN committed
                                            ELSE "not reached"]
    IN  IF ~Validates(run.pairs[run.idx])
        THEN NextPair(logged, RecordFailed(run.stats, "ValidationError"), t)
        ELSE IF committed = "IntegrityError"
        THEN NextPair(logged, [run.stats EXCEPT !.duplicates_skipped = @ + 1], t)
        ELSE IF committed = "OperationalError"
        THEN NextPair(logged, RecordFailed(run.stats, "OperationalError"), t)
        ELSE NextPair(logged, [run.stats EXCEPT !.successfully_imported = @ + 1], t)

\* the table after the loop body: a row is added by a commit that succeeds,
\* and rollback() drops the pending row after one that fails
StoreAfter(stored, japanese_text, committed) ==
    IF Validates(japanese_text) /\ committed = "ok" THEN Append(stored, japanese_text)
    ELSE stored

\* ------------------------------------------------------------------------
\* State
\* ------------------------------------------------------------------------

VARIABLES
    up,        \* the UserProgress record
    now,       \* the clock
    nCalls,    \* update_sm2_parameters calls made so far
    rating,    \* the quality_rating of the last call
    tCall,     \* the clock as the last call read it for next_review_date
    outcome,   \* how the last call ended: "none" (no call yet), "returned"
    textIn,        \* the text handed to the text functions
    hasGenerator,  \* JapaneseProcessor.furigana_generator is set
    call,          \* the text function called last, "none" before the first call
    ret,           \* what that call returned, "TypeError" when it raised
    imp,           \* the import runs: run id -> its file, pairs, position, statistics
    store,         \* the table japanese_sentence: the japanese_text of its rows
    recs,          \* several UserProgress records, each with the position of its update
    sess           \* a LearningSession, with the calls made on it

schedVars == <<up, now, nCalls, rating, tCall, outcome>>

textVars == <<textIn, hasGenerator, call, ret>>

importVars == <<imp, store>>

recordVars == <<recs>>

sessionVars == <<sess>>

vars == <<schedVars, textVars, importVars, recordVars, sessionVars>>

\* no review made yet
SchedIdle ==
    /\ now = 0
    /\ nCalls = 0
    /\ rating = 0
    /\ tCall = 0
    /\ outcome = "none"

\* no text function called yet
TextIdle == call = "none" /\ ret = "none"

\* no import run, an empty table
ImportIdle == imp = << >> /\ store = << >>

\* no further record
RecordsIdle == recs = << >>

\* no session
SessionIdle == sess = << >>

InitCommon ==
    /\ SchedIdle
    /\ textIn = << >> /\ hasGenerator = TRUE /\ TextIdle
    /\ ImportIdle
    /\ RecordsIdle
    /\ SessionIdle

\* a stored record, any that the schema accepts
Init == up \in StoredProgress /\ InitCommon

\* a record as created on first exposure to a sentence
InitNew == up = NewProgress(0) /\ InitCommon

\* one call of update_sm2_parameters(q); the clock may advance between the
\* two datetime.now(UTC) readings of the method
Review(q) ==
    /\ nCalls < MaxCalls
    /\ \E d \in 0..1 :
         /\ now + d <= MaxTime
         /\ up' = update_sm2_parameters(up, q, now, now + d)
         /\ now' = now + d
    /\ nCalls' = nCalls + 1
    /\ rating' = q
    /\ tCall' = now
    /\ outcome' = "returned"
    /\ UNCHANGED <<textVars, importVars, recordVars, sessionVars>>

Tick ==
    /\ now < MaxTime
    /\ now' = now + 1
    /\ UNCHANGED <<up, nCalls, rating, tCall, outcome>>
    /\ UNCHANGED <<textVars, importVars, recordVars, sessionVars>>

\* callers that pass a validated StudyResult.quality_rating
Next ==
    \/ \E q \in QualityRatings : Review(q)
    \/ Tick

\* callers that pass any integer
NextUnvalidated ==
    \/ \E q \in AnyRatings : Review(q)
    \/ Tick

Spec == Init /\ [][Next]_vars

SpecNew == InitNew /\ [][Next]_vars

SpecUnvalidated == Init /\ [][NextUnvalidated]_vars

\* ------------------------------------------------------------------------
\* The text functions, each called on the text at hand
\* ------------------------------------------------------------------------

\* a text, and a processor built with or without its FuriganaGenerator
InitText ==
    /\ textIn \in TextInputs
    /\ hasGenerator \in BOOLEAN
    /\ TextIdle
    /\ up = NewProgress(0) /\ SchedIdle
    /\ ImportIdle
    /\ RecordsIdle
    /\ SessionIdle

\* each function is called once on the text at hand
Idle == call = "none"

\* the functions of FuriganaGenerator raise TypeError on None
AnalyzeComposition ==
    /\ Idle
    /\ call' = "analyze_text_composition"
    /\ ret' = IF textIn = NoText THEN "TypeError" ELSE analyze_text_composition(textIn)
    /\ UNCHANGED <<textIn, hasGenerator, schedVars, importVars, recordVars, sessionVars>>

HasKanji ==
    /\ Idle
    /\ call' = "has_kanji"
    /\ ret' = IF textIn = NoText THEN "TypeError" ELSE has_kanji(textIn)
    /\ UNCHANGED <<textIn, hasGenerator, schedVars, importVars, recordVars, sessionVars>>

ExtractKanji ==
    /\ Idle
    /\ call' = "extract_kanji"
    /\ IF textIn = NoText THEN ret' = "TypeError"
       ELSE \E kanji_chars \in extract_kanji(textIn) : ret' = kanji_chars
    /\ UNCHANGED <<textIn, hasGenerator, schedVars, importVars, recordVars, sessionVars>>

EstimateJlpt ==
    /\ Idle
    /\ call' = "estimate_jlpt_level"
    /\ ret' = estimate_jlpt_level(hasGenerator, textIn)
    /\ UNCHANGED <<textIn, hasGenerator, schedVars, importVars, recordVars, sessionVars>>

\* _estimate_difficulty(text, composition) as process_japanese_sentence calls
\* it: with the composition of the text
EstimateDifficulty ==
    /\ Idle
    /\ call' = "_estimate_difficulty"
    /\ ret' = IF textIn = NoText THEN "TypeError"
              ELSE _estimate_difficulty(textIn, analyze_text_composition(textIn))
    /\ UNCHANGED <<textIn, hasGenerator, schedVars, importVars, recordVars, sessionVars>>

\* None has no strip()
DetectSentenceType ==
    /\ Idle
    /\ call' = "_detect_sentence_type"
    /\ ret' = IF textIn = NoText THEN "TypeError" ELSE _detect_sentence_type(textIn)
    /\ UNCHANGED <<textIn, hasGenerator, schedVars, importVars, recordVars, sessionVars>>

ProcessSentence ==
    /\ Idle
    /\ call' = "process_japanese_sentence"
    /\ \E furigana \in FuriganaResults :
         \E kanji_chars \in (IF textIn = NoText THEN {<< >>} ELSE extract_kanji(textIn)) :
            ret' = process_japanese_sentence(hasGenerator, textIn, furigana, kanji_chars)
    /\ UNCHANGED <<textIn, hasGenerator, schedVars, importVars, recordVars, sessionVars>>

\* POST /process-text with a request that passed its schema
ProcessJapaneseText ==
    /\ Idle /\ RequestValidates(textIn)
    /\ call' = "process_japanese_text"
    /\ \E furigana \in FuriganaResults, kanji_chars \in extract_kanji(textIn) :
          ret' = process_japanese_text(hasGenerator, textIn, furigana, kanji_chars)
    /\ UNCHANGED <<textIn, hasGenerator, schedVars, importVars, recordVars, sessionVars>>

NextText ==
    \/ AnalyzeComposition
    \/ HasKanji
    \/ ExtractKanji
    \/ EstimateJlpt
    \/ EstimateDifficulty
    \/ DetectSentenceType
    \/ ProcessSentence
    \/ ProcessJapaneseText

SpecText == InitText /\ [][NextText]_vars

\* ------------------------------------------------------------------------
\* One import run on a table without duplicates
\* ------------------------------------------------------------------------

\* the tables at the start: each valid text stored once or not at all
RECURSIVE StoreOf(_, _)
StoreOf(texts, n) ==
    IF n = 0 THEN << >>
    ELSE IF n \in texts THEN Append(StoreOf(texts, n - 1), n)
    ELSE StoreOf(texts, n - 1)

InitialStores == {StoreOf(texts, MaxTexts) : texts \in SUBSET Texts}

RowLists == UNION {[1..n -> RowValues] : n \in 0..MaxRows}

\* a file to import: missing, unreadable, a CSV file, a JSON list or a JSON object
ImportFiles ==
    {[format |-> f, file |-> st, shape |-> "list", rows |-> << >>] :
        f \in {"csv", "json"}, st \in {"missing", "unreadable"}}
    \cup {[format |-> f, file |-> "ok", shape |-> "list", rows |-> rows] :
             f \in {"csv", "json"}, rows \in RowLists}
    \cup {[format |-> "json", file |-> "ok", shape |-> "object", rows |-> <<row>>] :
             row \in RowValues}

\* a DataImporter and the ImportStats of its call, before the call
NewRun(input, auto_process, t) ==
    [format |-> input.format, file |-> input.file, shape |-> input.shape, rows |-> input.rows,
     auto_process |-> auto_process, pairs |-> << >>, idx |-> 0, pc |-> "start",
     stats |-> NewStats(t), warnings |-> 0, committed |-> "none"]

InitImport ==
    /\ store \in InitialStores
    /\ \E input \in ImportFiles, auto_process \in BOOLEAN :
          imp = (1 :> NewRun(input, auto_process, 0))
    /\ up = NewProgress(0) /\ SchedIdle
    /\ textIn = << >> /\ hasGenerator = TRUE /\ TextIdle
    /\ RecordsIdle
    /\ SessionIdle

ImportFromCsv(r) ==
    /\ imp[r].pc = "start" /\ imp[r].format = "csv"
    /\ imp' = [imp EXCEPT ![r] = import_from_csv(@, now)]
    /\ UNCHANGED <<store, schedVars, textVars, recordVars, sessionVars>>

ImportFromJson(r) ==
    /\ imp[r].pc = "start" /\ imp[r].format = "json"
    /\ imp' = [imp EXCEPT ![r] = import_from_json(@, now)]
    /\ UNCHANGED <<store, schedVars, textVars, recordVars, sessionVars>>

CheckExisting(r) ==
    /\ imp[r].pc = "check"
    /\ imp' = [imp EXCEPT ![r] = check_existing(@, store, now)]
    /\ UNCHANGED <<store, schedVars, textVars, recordVars, sessionVars>>

InsertCommit(r) ==
    /\ imp[r].pc = "insert"
    /\ \E committed \in CommitResults :
          /\ imp' = [imp EXCEPT ![r] = insert_commit(@, committed, now)]
          /\ store' = StoreAfter(store, imp[r].pairs[imp[r].idx], committed)
    /\ UNCHANGED <<schedVars, textVars, recordVars, sessionVars>>

NextImport ==
    \/ \E r \in DOMAIN imp : ImportFromCsv(r)
    \/ \E r \in DOMAIN imp : ImportFromJson(r)
    \/ \E r \in DOMAIN imp : CheckExisting(r)
    \/ \E r \in DOMAIN imp : InsertCommit(r)

SpecImport == InitImport /\ [][NextImport]_vars

\* ------------------------------------------------------------------------
\* Two import runs on the same table
\* ------------------------------------------------------------------------

\* rows of each of the two files
MaxSharedRows == 2

\* files that can be read, of rows with valid texts
SharedFiles ==
    {[format |-> f, file |-> "ok", shape |-> "list", rows |-> rows] :
        f \in {"csv", "json"}, rows \in UNION {[1..n -> Texts] : n \in 1..MaxSharedRows}}

\* two uploads through import_from_file, each with a DataImporter and a
\* session of its own (auto_process=True), on the same table
InitImportTwo ==
    /\ store \in InitialStores
    /\ \E first \in SharedFiles, second \in SharedFiles :
          imp = (1 :> NewRun(first, TRUE, 0)) @@ (2 :> NewRun(second, TRUE, 0))
    /\ up = NewProgress(0) /\ SchedIdle
    /\ textIn = << >> /\ hasGenerator = TRUE /\ TextIdle
    /\ RecordsIdle
    /\ SessionIdle

\* the steps of the two runs interleave freely
SpecImportTwo == InitImportTwo /\ [][NextImport]_vars

\* ------------------------------------------------------------------------
\* Several UserProgress records updated by interleaved calls
\* ------------------------------------------------------------------------

\* number of records, and of update_sm2_parameters calls made on them in all
NumRecords == 2

MaxUpdates == 3

Records == 1..NumRecords

\* the ratings of these calls: a failed review, a pass that lowers the
\* easiness factor, a perfect answer
RecordRatings == {1, 3, 5}

\* a new record, and a stored one that is one good review away from the
\* mastery branch
FirstRecords ==
    {NewProgress(0),
     [NewProgress(0) EXCEPT !.repetition_count = 2, !.interval_days = 6,
                            !.current_streak = 4, !.best_streak = 4,
                            !.mastery_level = 3, !.study_status = "review"]}

\* a record as an object of its own, with the position of the call made on
\* it (pc), the argument and the two clock readings of that call, and as
\* history the number of calls completed on it (done) and the record that
\* these calls make of the first one when made one after the other on it
\* alone (own)
NewObject(first) ==
    [self |-> first, pc |-> "idle", q |-> 0, t1 |-> NoTime, t2 |-> NoTime,
     done |-> 0, own |-> first]

RECURSIVE Begun(_, _)
\* faulty variant: interval_days kept in one place for all records
SetSelfSharedInterval(rs, id, obj) ==
    [o \in DOMAIN rs |->
        IF o = id THEN [rs[o] EXCEPT !.self = obj]
        ELSE [rs[o] EXCEPT !.self.interval_days = obj.interval_days]]

\* the assignments self.<field> = ... of the method: fields of the object
\* the method was called on
SetSelf(rs, id, obj) == [rs EXCEPT ![id].self = obj]

\* calls begun so far
Begun(rs, ids) ==
    IF ids = {} THEN 0
    ELSE LET id == CHOOSE o \in ids : TRUE
         IN  rs[id].done + (IF rs[id].pc = "idle" THEN 0 ELSE 1) + Begun(rs, ids \ {id})

InitRecords ==
    /\ recs \in {[id \in Records |-> NewObject(first[id])] : first \in [Records -> FirstRecords]}
    /\ up = NewProgress(0) /\ SchedIdle
    /\ textIn = << >> /\ hasGenerator = TRUE /\ TextIdle
    /\ ImportIdle
    /\ SessionIdle

\* lines 58-77 of a call update_sm2_parameters(q) on record id
BeginUpdate(id, q) ==
    /\ recs[id].pc = "idle" /\ Begun(recs, Records) < MaxUpdates
    /\ recs' = [SetSelf(recs, id, Sm2Schedule(recs[id].self, q))
                   EXCEPT ![id].pc = "scheduled", ![id].q = q]
    /\ UNCHANGED <<schedVars, textVars, importVars, sessionVars>>

\* line 81: the first reading of the clock
SetNextReviewDate(id) ==
    /\ recs[id].pc = "scheduled"
    /\ recs' = [SetSelf(recs, id,
                    [recs[id].self EXCEPT !.next_review_date =
                        Sm2Timestamps(recs[id].self, now, now).next_review_date])
                   EXCEPT ![id].pc = "dated", ![id].t1 = now]
    /\ UNCHANGED <<schedVars, textVars, importVars, sessionVars>>

\* line 82: the second reading of the clock
SetLastStudied(id) ==
    /\ recs[id].pc = "dated"
    /\ recs' = [SetSelf(recs, id,
                    [recs[id].self EXCEPT !.last_studied =
                        Sm2Timestamps(recs[id].self, now, now).last_studied])
                   EXCEPT ![id].pc = "stamped", ![id].t2 = now]
    /\ UNCHANGED <<schedVars, textVars, importVars, sessionVars>>

\* lines 84-90, and the return
EndUpdate(id) ==
    /\ recs[id].pc = "stamped"
    /\ recs' = [SetSelf(recs, id, Sm2Mastery(recs[id].self, recs[id].q))
                   EXCEPT ![id].pc = "idle", ![id].done = @ + 1,
                          ![id].q = 0, ![id].t1 = NoTime, ![id].t2 = NoTime,
                          ![id].own = update_sm2_parameters(@, recs[id].q,
                                                            recs[id].t1, recs[id].t2)]
    /\ UNCHANGED <<schedVars, textVars, importVars, sessionVars>>

\* calls on different records run in parallel: their steps interleave freely
NextRecords ==
    \/ \E id \in Records, q \in RecordRatings : BeginUpdate(id, q)
    \/ \E id \in Records : SetNextReviewDate(id)
    \/ \E id \in Records : SetLastStudied(id)
    \/ \E id \in Records : EndUpdate(id)
    \/ Tick

SpecRecords == InitRecords /\ [][NextRecords]_vars

\* ------------------------------------------------------------------------
\* A new record followed through a long series of reviews
\* ------------------------------------------------------------------------

\* number of update_sm2_parameters calls made on the new record
MaxReviews == 8

\* one call of update_sm2_parameters(q), as Review, within the longer series
Study(q) ==
    /\ nCalls < MaxReviews
    /\ \E d \in 0..1 :
         /\ now + d <= MaxTime
         /\ up' = update_sm2_parameters(up, q, now, now + d)
         /\ now' = now + d
    /\ nCalls' = nCalls + 1
    /\ rating' = q
    /\ tCall' = now
    /\ outcome' = "returned"
    /\ UNCHANGED <<textVars, importVars, recordVars, sessionVars>>

NextStudy == \E q \in QualityRatings : Study(q)

SpecStudy == InitNew /\ [][NextStudy]_vars

\* ------------------------------------------------------------------------
\* LearningSession (models/learning_session.py)
\* ------------------------------------------------------------------------

\* actual_duration_minutes default: None (a duration is never negative)
NoMinutes == -1

\* session_score default: None, as a value that no float takes
NoScore == [neg |-> TRUE, mag |-> << >>]

\* a session as created at time t, with the counters and the planned
\* duration that its owner gave it
NewSession(t, total_questions, correct_answers, planned_duration_minutes) ==
    [started_at |-> t, planned_duration_minutes |-> planned_duration_minutes,
     ended_at |-> NoTime, actual_duration_minutes |-> NoMinutes,
     correct_answers |-> correct_answers, total_questions |-> total_questions,
     session_score |-> NoScore, completion_status |-> "in_progress"]

\* (b - a).total_seconds() of two clock readings
TotalSeconds(a, b) == ((b - a) * 86400) \div TicksPerDay

\* lines 56-59
is_active(self) == self.completion_status = "in_progress" /\ self.ended_at = NoTime

\* lines 61-66
accuracy_rate(self) ==
    IF self.total_questions = 0 THEN FZero
    ELSE FMulInt(100, FLit(self.correct_answers, self.total_questions))

\* lines 68-79: t is the clock, read when the session is still going on
actual_duration(self, t) ==
    IF self.ended_at = NoTime
    THEN IF self.completion_status = "in_progress"
         THEN FTrunc(FLit(TotalSeconds(self.started_at, t), 60))
         ELSE NoMinutes
    ELSE FTrunc(FLit(TotalSeconds(self.started_at, self.ended_at), 60))

Lit_0_8 == FLit(8, 10)

Lit_1_1 == FLit(11, 10)

Lit_100_0 == FOfInt(100)

\* lines 93-99
DurationBonus(actual_dur, planned_dur) ==
    IF actual_dur # NoMinutes /\ planned_dur > 0
          /\ FCmp(FLit(actual_dur, planned_dur), Lit_0_8) >= 0
    THEN Lit_1_1 ELSE FOfInt(1)

\* lines 89-101
FinalScore(self) ==
    IF self.total_questions > 0
    THEN FMin(Lit_100_0,
              FMul(accuracy_rate(self),
                   DurationBonus(self.actual_duration_minutes, self.planned_duration_minutes)))
    ELSE self.session_score

\* lines 84-86 and 106-108: the end is stamped, the duration taken from it
Ended(self, t, status) ==
    LET stamped == [self EXCEPT !.ended_at = t]
    IN  [stamped EXCEPT !.actual_duration_minutes = actual_duration(stamped, t),
                        !.completion_status = status]

\* faulty variant: the session is ended again each time
end_session_again(self, t) ==
    LET ended == Ended(self, t, "completed")
    IN  [ended EXCEPT !.session_score = FinalScore(ended)]

\* lines 81-101
end_session(self, t) ==
    IF self.ended_at = NoTime
    THEN LET ended == Ended(self, t, "completed")
         IN  [ended EXCEPT !.session_score = FinalScore(ended)]
    ELSE self

\* lines 103-108
abandon_session(self, t) ==
    IF self.ended_at = NoTime THEN Ended(self, t, "abandoned") ELSE self

\* number of end_session and abandon_session calls made on the session
MaxSessionCalls == 3

\* the sessions explored: no question asked or three, and a planned duration
\* of none, the default, or more than the session can last
SessionInputs ==
    {NewSession(0, total, correct, planned) :
        total \in {0, 3}, correct \in 0..3, planned \in {0, 15, 1000}}

\* an in-progress session; sess keeps the session (self), the calls made on
\* it so far (calls) and the session as the first of them left it (first)
InitSession ==
    /\ \E self \in {s \in SessionInputs : s.correct_answers <= s.total_questions} :
          sess = [self |-> self, calls |-> << >>, first |-> self]
    /\ up = NewProgress(0) /\ SchedIdle
    /\ textIn = << >> /\ hasGenerator = TRUE /\ TextIdle
    /\ ImportIdle
    /\ RecordsIdle

\* what a call leaves in sess
AfterCall(name, self) ==
    [sess EXCEPT !.self = self, !.calls = Append(@, name),
                 !.first = IF sess.calls = << >> THEN self ELSE @]

EndSession ==
    /\ Len(sess.calls) < MaxSessionCalls
    /\ sess' = AfterCall("end_session", end_session(sess.self, now))
    /\ UNCHANGED <<schedVars, textVars, importVars, recordVars>>

AbandonSession ==
    /\ Len(sess.calls) < MaxSessionCalls
    /\ sess' = AfterCall("abandon_session", abandon_session(sess.self, now))
    /\ UNCHANGED <<schedVars, textVars, importVars, recordVars>>

NextSession ==
    \/ EndSession
    \/ AbandonSession
    \/ Tick

SpecSession == InitSession /\ [][NextSession]_vars

\* ------------------------------------------------------------------------
\* Properties
\* ------------------------------------------------------------------------

\* the step is a call of update_sm2_parameters
Called == nCalls' = nCalls + 1

\* 1.0 in the unit of a float's magnitude
UnitMag == ShiftLimbsLeft(<<1>>, FracLimbs)

\* |a - b| <= tol, for natural numbers as limbs
Near(a, b, tol) ==
    IF BigCmp(a, b) >= 0 THEN BigCmp(BigSub(a, b), tol) <= 0
    ELSE BigCmp(BigSub(b, a), tol) <= 0

\* C1: a failed review (rating 0, 1 or 2) sets repetition_count to 0,
\* interval_days to 1 and current_streak to 0, and leaves easiness_factor and
\* mastery_level as they were.
C1_FailedReviewResets ==
    [][(Called /\ rating' \in 0..2) =>
          /\ up'.repetition_count = 0
          /\ up'.interval_days = 1
          /\ up'.current_streak = 0
          /\ up'.easiness_factor = up.easiness_factor
          /\ up'.mastery_level = up.mastery_level]_vars

\* a failed review of a record that had a streak of 4, an interval of 6 days
\* (it is due in one day now) and mastery 3
C1_Witness ==
    /\ nCalls = 1 /\ rating \in 0..2
    /\ up.best_streak = 4 /\ up.current_streak = 0
    /\ up.repetition_count = 0 /\ up.interval_days = 1
    /\ up.mastery_level = 3 /\ up.easiness_factor = DefaultEasiness

\* C2: a rating outside 0..5 is rejected with InvalidInput and no field of the
\* record changes.
C2_InvalidRatingRejected ==
    [][(Called /\ rating' \notin QualityRatings) =>
          (outcome' = "InvalidInput" /\ up' = up)]_vars

\* C3: easiness_factor is at least 1.3 in every state reached by ratings in 0..5
\* from a record whose easiness_factor is at least 1.3.
C3_EasinessAtLeastFloor == FCmp(up.easiness_factor, FLit(13, 10)) >= 0

\* a rating of 3 on a record at the floor: the sum is below 1.3 and the floor applies
C3_Witness ==
    /\ nCalls > 0 /\ rating = 3
    /\ up.easiness_factor = FLit(13, 10)
    /\ FCmp(FAdd(up.easiness_factor, EasinessDeltaOf(3)), FLit(13, 10)) < 0

\* C4: interval_days is at least 1 in every state reached by ratings in 0..5 from
\* a record with interval_days >= 1 and easiness_factor >= 1.3.
C4_IntervalAtLeastOne == up.interval_days >= 1

\* the truncated product of interval 1 and an easiness factor below 2
C4_Witness ==
    /\ nCalls > 0 /\ rating >= 3
    /\ up.repetition_count >= 3
    /\ up.interval_days = 1
    /\ FCmp(up.easiness_factor, FOfInt(2)) < 0

\* C5: a successful review increments repetition_count and sets interval_days to 1
\* when the new count is 1, to 6 when it is 2, and otherwise to the integer n with
\* n <= interval_days * easiness_factor' < n + 1 (the float product of the old
\* interval and the updated factor, truncated); count 2, factor 2.5, interval 6
\* and rating 4 give count 3, factor 2.5, interval 15.
C5_SuccessInterval ==
    [][(Called /\ rating' \in 3..5) =>
          LET n == up'.interval_days
              product == FMulInt(up.interval_days, up'.easiness_factor)
          IN  /\ up'.repetition_count = up.repetition_count + 1
              /\ up'.repetition_count = 1 => n = 1
              /\ up'.repetition_count = 2 => n = 6
              /\ up'.repetition_count >= 3 =>
                   /\ FCmp(FOfInt(n), product) <= 0
                   /\ FCmp(product, FOfInt(n + 1)) < 0
              /\ ( /\ up.repetition_count = 2
                   /\ up.easiness_factor = FLit(25, 10)
                   /\ up.interval_days = 6
                   /\ rating' = 4 ) =>
                   /\ up'.repetition_count = 3
                   /\ up'.easiness_factor = FLit(25, 10)
                   /\ n = 15]_vars

\* the example of the claim, after the call
C5_Witness ==
    /\ nCalls = 1 /\ rating = 4
    /\ up.repetition_count = 3
    /\ up.easiness_factor = FLit(25, 10)
    /\ up.interval_days = 15

\* C6: on a successful review easiness_factor' is max(1.3, easiness_factor + d)
\* with d = +0.10 for rating 5, 0 for rating 4 and -0.14 for rating 3, to within
\* 2^-50 (float rounding); for rating 4 the factor is exactly unchanged.
C6_Target(ef, q) ==
    LET hundred == BigMulSmall(ef.mag, 100)
        raw == IF q = 5 THEN BigAdd(hundred, BigMulSmall(UnitMag, 10))
               ELSE IF q = 4 THEN hundred
               ELSE BigSub(hundred, BigMulSmall(UnitMag, 14))
        floor == BigMulSmall(UnitMag, 130)
    IN  IF BigCmp(raw, floor) >= 0 THEN raw ELSE floor

C6_EasinessDeltaPerRating ==
    [][(Called /\ rating' \in 3..5) =>
          /\ ~up'.easiness_factor.neg
          /\ Near(BigMulSmall(up'.easiness_factor.mag, 100),
                  C6_Target(up.easiness_factor, rating'),
                  BigMulSmall(ShiftLeft(<<1>>, 10), 100))
          /\ rating' = 4 => up'.easiness_factor = up.easiness_factor]_vars

\* a rating of 3 took the factor from 2.5 to 2.36, above the floor
C6_Witness ==
    /\ nCalls = 1 /\ rating = 3
    /\ FCmp(up.easiness_factor, FLit(235, 100)) > 0
    /\ FCmp(up.easiness_factor, FLit(237, 100)) < 0

\* C7: mastery_level never decreases: a failed review leaves it unchanged, a
\* successful one leaves it unchanged or raises it by one, never above 5.
C7_MasteryMonotone ==
    [][Called =>
          /\ up'.mastery_level >= up.mastery_level
          /\ up'.mastery_level <= 5
          /\ rating' < 3 => up'.mastery_level = up.mastery_level
          /\ rating' >= 3 =>
               up'.mastery_level \in {up.mastery_level, up.mastery_level + 1}]_vars

\* a rating of 4 or 5 at a streak of 5 or more on a record already at level 5
C7_Witness ==
    /\ nCalls > 0 /\ rating >= 4
    /\ up.current_streak >= 5
    /\ up.mastery_level = 5

\* C8: after a successful review, if the updated streak is at least 5 and the
\* rating at least 4 then mastery_level becomes min(5, mastery_level + 1) and, when
\* that is 4 or more, study_status becomes 'mastered'; otherwise, if
\* repetition_count > 0, study_status becomes 'review' (rating >= 3).
C8_MasteryTransition ==
    [][(Called /\ rating' \in 3..5) =>
          IF up'.current_streak >= 5 /\ rating' >= 4
          THEN /\ up'.mastery_level = Min2(5, up.mastery_level + 1)
               /\ up'.mastery_level >= 4 => up'.study_status = "mastered"
          ELSE up'.repetition_count > 0 =>
                 up'.study_status = (IF rating' >= 3 THEN "review" ELSE "learning")]_vars

\* the fifth correct answer in a row, rated 4 or 5, takes level 3 to 4: mastered
C8_Witness ==
    /\ nCalls = 1 /\ rating >= 4
    /\ up.current_streak = 5
    /\ up.mastery_level = 4
    /\ up.study_status = "mastered"

\* C9: a call at time t sets next_review_date to t plus the new interval_days
\* days, so the record is not due at any time before that and due at every time
\* from it on.
C9_NextReviewDate ==
    nCalls > 0 =>
        /\ up.next_review_date = tCall + up.interval_days * TicksPerDay
        /\ \A t \in 0..(MaxTime + 1) :
             is_due_for_review(up, t) <=> t >= tCall + up.interval_days * TicksPerDay

\* the clock has reached the review date of the last call: due, exactly on time
C9_Witness ==
    /\ nCalls > 0
    /\ now = tCall + up.interval_days * TicksPerDay
    /\ is_due_for_review(up, now)

\* C10 as stated: for every record with repetition_count >= 2 and every rating
\* >= 3, two updates give a state other than one update does, with a strictly
\* larger interval_days.
C10_TwiceGrows ==
    \A q \in 3..5 :
        up.repetition_count >= 2 =>
            LET once == update_sm2_parameters(up, q, now, now)
                twice == update_sm2_parameters(once, q, now, now)
            IN  twice # once /\ twice.interval_days > once.interval_days

\* C10 amended: the same for every record with repetition_count >= 2 and
\* interval_days >= 4.
C10_TwiceGrowsFromFour ==
    \A q \in 3..5 :
        (up.repetition_count >= 2 /\ up.interval_days >= 4) =>
            LET once == update_sm2_parameters(up, q, now, now)
                twice == update_sm2_parameters(once, q, now, now)
            IN  twice # once /\ twice.interval_days > once.interval_days

\* a record at its third repetition or later, reached by a successful review,
\* whose interval a further review at the floor of the factor still lengthens
C10_Witness ==
    /\ nCalls > 0 /\ rating >= 3
    /\ up.repetition_count >= 3 /\ up.interval_days >= 4
    /\ up.easiness_factor = FLit(13, 10)
    /\ update_sm2_parameters(up, 3, now, now).interval_days > up.interval_days

\* number of characters of the text with a code point in lo..hi
CountIn(text, lo, hi) == Cardinality({i \in 1..Len(text) : lo <= text[i] /\ text[i] <= hi})

\* C11: analyze_text_composition puts every character in exactly one of the
\* five buckets: kanji U+4E00..U+9FFF, hiragana U+3040..U+309F, katakana
\* U+30A0..U+30FF, ASCII below 128, other for the rest; the five counts sum to
\* the length of the text.
C11_CompositionPartitions ==
    (call = "analyze_text_composition" /\ textIn # NoText) =>
        /\ ret.kanji = CountIn(textIn, 19968, 40959)
        /\ ret.hiragana = CountIn(textIn, 12352, 12447)
        /\ ret.katakana = CountIn(textIn, 12448, 12543)
        /\ ret.ascii = CountIn(textIn, 0, 127)
        /\ ret.other = Len(textIn) - CountIn(textIn, 19968, 40959)
                           - CountIn(textIn, 12352, 12543) - CountIn(textIn, 0, 127)
        /\ ret.kanji + ret.hiragana + ret.katakana + ret.ascii + ret.other = Len(textIn)

\* the last hiragana next to the first katakana: one in each bucket
C11_Witness ==
    /\ call = "analyze_text_composition"
    /\ textIn = <<12447, 12448>>
    /\ ret.hiragana = 1 /\ ret.katakana = 1

\* the keys of an analysis
AnalysisKeys == {"character_composition", "kanji_count", "difficulty_estimate", "sentence_type"}

\* C12: process_japanese_sentence on an empty, whitespace-only or missing
\* (None) text returns a result with an 'error' entry and no character
\* composition, kanji count, difficulty or sentence type; it returns, it does
\* not raise.
C12_BlankTextIsError ==
    (/\ call = "process_japanese_sentence"
     /\ (textIn = NoText \/ \A i \in 1..Len(textIn) : textIn[i] \in WhitespaceChars)) =>
        /\ "error" \in DOMAIN ret
        /\ ret["original_text"] = textIn
        /\ DOMAIN ret \cap AnalysisKeys = {}

\* a text of a space and an ideographic space
C12_Witness ==
    /\ call = "process_japanese_sentence"
    /\ textIn = <<32, 12288>>
    /\ hasGenerator
    /\ DOMAIN ret = {"original_text", "error"}

\* number of kanji (U+4E00..U+9FFF) of the text
KanjiIn(text) == CountIn(text, 19968, 40959)

\* the band 1..5 of the exact ratio k/n, n > 0, with 0.2, 0.4 and 0.6 inclusive
ExactBand(k, n) ==
    IF k = 0 THEN 1
    ELSE IF 5 * k <= n THEN 2
    ELSE IF 5 * k <= 2 * n THEN 3
    ELSE IF 5 * k <= 3 * n THEN 4
    ELSE 5

\* the level the thresholds give for k kanji among n characters
ExactLevel(k, n) ==
    IF n = 0 THEN "None" ELSE <<"N5", "N4", "N3", "N2", "N1">>[ExactBand(k, n)]

\* C13 as stated: estimate_jlpt_level maps the ratio k/n of every text by the
\* first matching threshold (k = 0: N5, <= 0.2: N4, <= 0.4: N3, <= 0.6: N2,
\* else N1, boundaries inclusive), and n = 0 gives no level.
C13_JlptByRatio ==
    (call = "estimate_jlpt_level" /\ textIn # NoText) =>
        ret = ExactLevel(KanjiIn(textIn), Len(textIn))

\* C13, amended: the mapping holds when the processor has its furigana
\* generator; without it every text gets no level.
C13_JlptByRatioWithGenerator ==
    (call = "estimate_jlpt_level" /\ textIn # NoText) =>
        ret = IF hasGenerator THEN ExactLevel(KanjiIn(textIn), Len(textIn)) ELSE "None"

\* 30 kanji among 50 characters: the ratio is the boundary 0.6
C13_Witness ==
    /\ call = "estimate_jlpt_level"
    /\ hasGenerator
    /\ Len(textIn) = 50 /\ KanjiIn(textIn) = 30
    /\ ret = "N2"

\* the difficulty the claim gives a text of n characters, k of them kanji
ExactDifficulty(k, n) ==
    IF n = 0 THEN 1
    ELSE IF n > 50 THEN (IF ExactBand(k, n) + 1 > 5 THEN 5 ELSE ExactBand(k, n) + 1)
    ELSE IF n < 10 THEN (IF ExactBand(k, n) - 1 < 1 THEN 1 ELSE ExactBand(k, n) - 1)
    ELSE ExactBand(k, n)

\* C14: _estimate_difficulty returns the base difficulty 1..5 of the kanji
\* ratio (the JLPT thresholds, N5..N1 as 1..5), plus one capped at 5 for a
\* text longer than 50 characters, minus one floored at 1 for a text shorter
\* than 10, unchanged for lengths 10..50; the result is an integer in 1..5.
C14_DifficultyByRatioAndLength ==
    (call = "_estimate_difficulty" /\ textIn # NoText) =>
        /\ ret = ExactDifficulty(KanjiIn(textIn), Len(textIn))
        /\ ret \in 1..5

\* 3 kanji in 7 characters: N2, base 4, difficulty 3
C14_Witness ==
    /\ call = "_estimate_difficulty"
    /\ Len(textIn) = 7 /\ KanjiIn(textIn) = 3
    /\ estimate_jlpt_level(TRUE, textIn) = "N2"
    /\ ret = 3

\* C15: every text whose trimmed form ends with one of the command suffixes
\* (kudasai, nasai, te) and with no question or exclamation mark is classified
\* 'command': the command suffixes are checked before the statement suffixes.
C15_CommandSuffixWins ==
    (/\ call = "_detect_sentence_type"
     /\ textIn # NoText
     /\ \/ EndsWith(Strip(textIn), <<12367, 12384, 12373, 12356>>)
        \/ EndsWith(Strip(textIn), <<12394, 12373, 12356>>)
        \/ EndsWith(Strip(textIn), <<12390>>)) =>
        ret = "command"

\* the list has no element twice
NoDuplicates(l) == \A i, j \in 1..Len(l) : l[i] = l[j] => i = j

Inserting(r) == imp[r].pc = "insert" /\ imp'[r].pc # "insert"

\* the loop goes on after the pair at hand: to the next pair, or to the end
\* when it was the last; a finished loop has counted every pair
LoopGoesOn(r) ==
    /\ imp'[r].pairs = imp[r].pairs
    /\ imp'[r].idx = imp[r].idx + 1
    /\ imp'[r].pc = IF imp[r].idx < Len(imp[r].pairs) THEN "check" ELSE "done"
    /\ imp'[r].pc = "done" => imp'[r].stats.total_processed = Len(imp[r].pairs)

\* the failure was counted in errors, with one more detail message
CountedAsError(r) ==
    /\ imp'[r].stats.errors = imp[r].stats.errors + 1
    /\ Len(imp'[r].stats.error_details) = Len(imp[r].stats.error_details) + 1
    /\ imp'[r].stats.duplicates_skipped = imp[r].stats.duplicates_skipped
    /\ imp'[r].stats.successfully_imported = imp[r].stats.successfully_imported

\* C17 as stated: a commit that fails is rolled back and counted in errors
\* with a detail message, a failure of the auto-processing does not keep the
\* pair from being saved, and in both cases the loop goes on, so that every
\* pair is processed.
C17_FailureIsolated ==
    [][\A r \in DOMAIN imp :
          Inserting(r) =>
              /\ LoopGoesOn(r)
              /\ imp'[r].committed \in {"IntegrityError", "OperationalError"} =>
                    store' = store /\ CountedAsError(r)
              /\ imp[r].auto_process => imp'[r].warnings = imp[r].warnings + 1
              /\ imp'[r].committed = "ok" =>
                    /\ store' = Append(store, imp[r].pairs[imp[r].idx])
                    /\ imp'[r].stats.successfully_imported
                           = imp[r].stats.successfully_imported + 1]_vars

\* C17, amended: as above, but a commit that fails with IntegrityError is
\* rolled back and counted in duplicates_skipped, with no detail message;
\* every other failure of the commit is counted in errors.
C17_FailureIsolatedByKind ==
    [][\A r \in DOMAIN imp :
          Inserting(r) =>
              /\ LoopGoesOn(r)
              /\ imp'[r].committed = "OperationalError" => store' = store /\ CountedAsError(r)
              /\ imp'[r].committed = "IntegrityError" =>
                    /\ store' = store
                    /\ imp'[r].stats.duplicates_skipped = imp[r].stats.duplicates_skipped + 1
                    /\ imp'[r].stats.errors = imp[r].stats.errors
                    /\ imp'[r].stats.error_details = imp[r].stats.error_details
              /\ imp[r].auto_process => imp'[r].warnings = imp[r].warnings + 1
              /\ imp'[r].committed = "ok" =>
                    /\ store' = Append(store, imp[r].pairs[imp[r].idx])
                    /\ imp'[r].stats.successfully_imported
                           = imp[r].stats.successfully_imported + 1]_vars

\* two pairs, auto-processing on: the commit of the first failed, the second
\* was saved all the same
C17_Witness ==
    /\ imp[1].pc = "done" /\ imp[1].auto_process
    /\ imp[1].pairs = <<1, 2>>
    /\ store = <<2>>
    /\ imp[1].warnings = 2
    /\ imp[1].stats.total_processed = 2
    /\ imp[1].stats.errors = 1
    /\ imp[1].stats.error_details = <<"Failed to import: OperationalError">>
    /\ imp[1].stats.successfully_imported = 1

\* no two rows of the table have the same japanese_text
NoDuplicateTexts == \A i, j \in 1..Len(store) : store[i] = store[j] => i = j

\* the step is the duplicate check of run r, on a text that is stored
CheckingStored(r) ==
    /\ imp[r].pc = "check" /\ imp'[r] # imp[r]
    /\ \E i \in 1..Len(store) : store[i] = imp[r].pairs[imp[r].idx]

\* C18: during one import run a pair whose japanese_text is already stored,
\* from before the run or from an earlier pair of the run, is not inserted
\* again and is counted in duplicates_skipped; a table with no duplicate
\* japanese_text is left with none.
C18_StoredTextSkipped ==
    /\ []NoDuplicateTexts
    /\ [][\A r \in DOMAIN imp :
             CheckingStored(r) =>
                 /\ store' = store
                 /\ imp'[r].pc # "insert"
                 /\ imp'[r].idx = imp[r].idx + 1
                 /\ imp'[r].stats.duplicates_skipped = imp[r].stats.duplicates_skipped + 1
                 /\ imp'[r].stats.successfully_imported = imp[r].stats.successfully_imported
                 /\ imp'[r].stats.errors = imp[r].stats.errors]_vars

\* the same text twice in one file, on an empty table: saved once, skipped once
C18_Witness ==
    /\ imp[1].pc = "done"
    /\ imp[1].pairs = <<1, 1>>
    /\ store = <<1>>
    /\ imp[1].stats.successfully_imported = 1
    /\ imp[1].stats.duplicates_skipped = 1
    /\ imp[1].committed = "ok"

\* the step is the call of import_from_csv or import_from_json of run r on a
\* file that is missing or cannot be read
OpeningBadFile(r) ==
    /\ imp[r].pc = "start" /\ imp'[r] # imp[r]
    /\ imp[r].file \in {"missing", "unreadable"}

Updating(id) == recs'[id].pc # recs[id].pc

\* between its calls a record is what its own calls make of it
OwnUpdatesOnly ==
    \A id \in DOMAIN recs : recs[id].pc = "idle" => recs[id].self = recs[id].own

\* C20: updates of different records do not interfere: a step of an update
\* of one record changes no field of any other record, and however the
\* updates of different records interleave, each record between its calls
\* equals the result of applying its own updates in order to the record it
\* started from.
C20_RecordsIndependent ==
    /\ []OwnUpdatesOnly
    /\ [][\A id \in DOMAIN recs :
             Updating(id) => \A o \in DOMAIN recs \ {id} : recs'[o] = recs[o]]_vars

\* record 1 after two calls of its own, the second made while the call on
\* record 2 that is still running was between its two clock readings
C20_Witness ==
    /\ DOMAIN recs = Records
    /\ recs[1].pc = "idle" /\ recs[1].done = 2 /\ recs[1].self.interval_days > 6
    /\ recs[2].pc = "stamped" /\ recs[2].self.interval_days = 1
    /\ recs[2].t1 < recs[1].self.next_review_date - recs[1].self.interval_days * TicksPerDay
    /\ recs[1].self.last_studied < recs[2].t2

\* the upper limit of easiness_factor in UserProgressBase and UserProgressUpdate
MaxEasiness == FLit(3, 1)

\* the field constraint ge=1.3, le=3.0
EasinessValidates(ef) == FCmp(ef, MinEasiness) >= 0 /\ FCmp(ef, MaxEasiness) <= 0

\* C21 as stated: after any series of calls with ratings in 0..5 on a record
\* created with easiness factor 2.5, easiness_factor is within 1.3..3.0, the
\* range the progress schemas accept.
C21_EasinessValidates == EasinessValidates(up.easiness_factor)

\* C22 as stated: every update sets last_studied to the current time, on the
\* failed branch as on the successful one, and sets last_correct to the
\* current time on a successful review (rating >= 3) and leaves it unchanged
\* on a failed one.
C22_TimestampsSet ==
    [][Called =>
          /\ up'.last_studied = now'
          /\ up'.last_correct = IF rating' >= 3 THEN now' ELSE up.last_correct]_vars

\* C24: from a new record, under calls with ratings in 0..5, study_status is
\* never 'learning': a failed review leaves study_status as it was, and the
\* status is 'new' until the first successful review.
C24_NeverLearning ==
    /\ [](up.study_status # "learning")
    /\ [](up.best_streak = 0 => up.study_status = "new")
    /\ [][(Called /\ rating' < 3) => up'.study_status = up.study_status]_vars

\* a failed review of a record that had been reviewed with success before:
\* the count is reset, the status is still 'review'
C24_Witness ==
    /\ nCalls >= 3 /\ rating < 3
    /\ up.best_streak >= 2 /\ up.repetition_count = 0 /\ up.study_status = "review"

\* C25: from a new record, under calls with ratings in 0..5, study_status
\* 'mastered' implies mastery_level >= 4.
C25_MasteredIsLevelFour == up.study_status = "mastered" => up.mastery_level >= 4

\* the record at its eighth review in a row rated 4 or 5
C25_Witness ==
    /\ up.study_status = "mastered" /\ up.mastery_level = 4
    /\ up.current_streak = 8 /\ nCalls = 8 /\ rating = 4

\* the call is made on a record whose study_status is 'mastered'
CalledOnMastered == Called /\ up.study_status = "mastered"

\* C26 as stated: once study_status is 'mastered' it stays 'mastered' under
\* every later call, whatever the rating in 0..5.
C26_MasteredStays == [][CalledOnMastered => up'.study_status = "mastered"]_vars

\* C26 amended: a mastered record stays 'mastered' under a failed review
\* (rating < 3) and under a rating of 4 or 5 that leaves current_streak at 5
\* or more; every other successful review (a rating of 3, or a rating of 4 or
\* 5 within the first four reviews after a failure) sets study_status to
\* 'review'. mastery_level is not lowered by any of them.
C26_MasteredStaysUnlessWeakPass ==
    [][CalledOnMastered =>
          /\ up'.study_status =
                IF rating' < 3 \/ (rating' >= 4 /\ up'.current_streak >= 5)
                THEN "mastered" ELSE "review"
          /\ up'.mastery_level >= up.mastery_level]_vars

\* a record that became 'mastered' at level 4 and was then rated 3
C26_Witness ==
    /\ nCalls = 2 /\ rating = 3
    /\ up.mastery_level = 4 /\ up.study_status = "review" /\ up.current_streak = 6

\* the interval that goes with a repetition count
IntervalMatchesCount ==
    /\ (up.repetition_count <= 1 => up.interval_days = 1)
    /\ (up.repetition_count = 2 => up.interval_days = 6)
    /\ (up.repetition_count >= 3 => up.interval_days >= 7)

\* C27: from a new record, under calls with ratings in 0..5, current_streak
\* equals repetition_count, and interval_days is 1 when repetition_count <= 1,
\* 6 when repetition_count = 2 and at least 7 when repetition_count >= 3,
\* strictly larger after each further successful review in a row.
C27_StreakAndIntervalByCount ==
    /\ [](up.current_streak = up.repetition_count /\ IntervalMatchesCount)
    /\ [][(Called /\ rating' >= 3 /\ up.repetition_count >= 1) =>
             up'.interval_days > up.interval_days]_vars

\* five successful reviews in a row at the lowest rating, after a failure
C27_Witness ==
    /\ up.repetition_count = 5 /\ up.current_streak = 5 /\ up.best_streak = 5
    /\ nCalls >= 7 /\ rating = 3
    /\ FCmp(up.easiness_factor, FLit(2, 1)) < 0
    /\ up.interval_days > 7

\* C23 as stated: for every text on which process_japanese_sentence reports
\* the empty-input error (empty or whitespace-only), estimate_jlpt_level
\* returns none, so the response of process_japanese_text never pairs the
\* error with an estimated JLPT level.
C23_NoLevelForBlankText ==
    /\ (call = "estimate_jlpt_level" /\ IsBlank(textIn)) => ret = "None"
    /\ (call = "process_japanese_text" /\ ret.error = "Empty or invalid text provided") =>
           ret.estimated_jlpt_level = "None"

\* the errors counted while the rows of the file were read, before the loop
\* over the pairs began
RowErrors(run) ==
    IF run.format = "csv" THEN CsvRowsFrom(run.rows, 1, [pairs |-> << >>, errors |-> 0]).errors
    ELSE 0

\* the pairs that got an outcome, by kind
Outcomes(run) ==
    run.stats.successfully_imported + run.stats.duplicates_skipped
        + (run.stats.errors - RowErrors(run))

\* the run is in the loop between two pairs, or past the loop
BetweenPairs(run) == run.pairs # << >> /\ run.pc \in {"check", "done"}

\* C28: _import_sentence_pairs gives each pair exactly one outcome: after each
\* pair and at the end of the loop, total_processed = successfully_imported +
\* duplicates_skipped + the errors counted by the loop (and is the number of
\* pairs gone through), and no counter ever decreases.
C28_OneOutcomePerPair ==
    /\ [](\A r \in DOMAIN imp :
             /\ BetweenPairs(imp[r]) =>
                   /\ imp[r].stats.total_processed = Outcomes(imp[r])
                   /\ imp[r].stats.total_processed = imp[r].idx - 1
             /\ imp[r].pc = "insert" => imp[r].stats.total_processed = Outcomes(imp[r]) + 1)
    /\ [][\A r \in DOMAIN imp :
             /\ imp'[r].stats.total_processed >= imp[r].stats.total_processed
             /\ imp'[r].stats.successfully_imported >= imp[r].stats.successfully_imported
             /\ imp'[r].stats.duplicates_skipped >= imp[r].stats.duplicates_skipped
             /\ imp'[r].stats.errors >= imp[r].stats.errors]_vars

\* a CSV file of three rows, one of them unreadable: of the two pairs one
\* was saved and one was a duplicate, and the row error is not an outcome
C28_Witness ==
    /\ imp[1].pc = "done" /\ imp[1].format = "csv" /\ RowErrors(imp[1]) = 1
    /\ imp[1].stats.total_processed = 2
    /\ imp[1].stats.successfully_imported = 1
    /\ imp[1].stats.duplicates_skipped = 1
    /\ imp[1].stats.errors = 1

\* C29 as stated: the duplicate detection also holds when two import runs
\* interleave on the same table: however their duplicate checks and their
\* inserts interleave, no two stored sentences have the same japanese_text.
C29_InterleavedRunsKeepTextsUnique ==
    \A i, j \in 1..Len(store) : i # j => store[i] # store[j]

\* the step is the first call on the session, or a later one
FirstCall == sess.calls = << >> /\ sess'.calls # << >>

LaterCall == sess.calls # << >> /\ sess'.calls # sess.calls

\* C30: a LearningSession ends at most once: from an in-progress session the
\* first end_session or abandon_session call sets ended_at and makes the
\* status 'completed' or 'abandoned' respectively; every later call of either
\* changes nothing (ended_at, completion_status, actual_duration_minutes and
\* session_score keep their values); is_active is false from the first call
\* on, and completion_status is 'in_progress' exactly while ended_at is unset.
C30_EndsAtMostOnce ==
    /\ [](/\ sess.self.completion_status = "in_progress" <=> sess.self.ended_at = NoTime
          /\ is_active(sess.self) <=> sess.calls = << >>
          /\ sess.calls # << >> => sess.self = sess.first)
    /\ [][/\ FirstCall =>
               /\ sess'.self.ended_at = now
               /\ sess'.self.completion_status =
                     IF sess'.calls[1] = "end_session" THEN "completed" ELSE "abandoned"
          /\ LaterCall =>
               /\ sess'.self.ended_at = sess.self.ended_at
               /\ sess'.self.completion_status = sess.self.completion_status
               /\ sess'.self.actual_duration_minutes = sess.self.actual_duration_minutes
               /\ sess'.self.session_score = sess.self.session_score]_vars

\* a session completed with a full score after one tick, then abandoned and
\* ended again one tick later
C30_Witness ==
    /\ sess.calls = <<"end_session", "abandon_session", "end_session">>
    /\ sess.self.completion_status = "completed"
    /\ sess.self.ended_at = 1 /\ now = 2
    /\ sess.self.actual_duration_minutes > 0
    /\ sess.self.session_score = Lit_100_0

====
